---- MODULE Spec2Model ----
(***************************************************************************)
(* Model of MatrixProvider.Configure (internal/provider/provider.go): the  *)
(* configuration cycle that decodes the provider block, validates the      *)
(* three attributes in two passes, builds the logging context, constructs  *)
(* the gomatrix client and hands it to data sources and resources.         *)
(***************************************************************************)
EXTENDS Integers, Sequences, FiniteSets, TLC

\* The configuration cycles (invocations of Configure) of one behaviour.
Cycles == {1, 2}

\* A nil pointer / an absent path / an unset environment variable.
Nil == "<nil>"
Unset == "<unset>"

\* The attribute names of the provider schema, in the order Configure
\* handles them.
FieldNames == <<"client_server_url", "default_access_token", "default_user_id">>

Fields == {FieldNames[i] : i \in 1..3}

\* The environment variable Configure reads for each attribute.
EnvName(f) ==
    CASE f = "client_server_url" -> "MATRIX_CLIENT_SERVER_URL"
      [] f = "default_access_token" -> "MATRIX_DEFAULT_ACCESS_TOKEN"
      [] f = "default_user_id" -> "MATRIX_DEFAULT_USERID"

EnvNames == {EnvName(f) : f \in Fields}

----------------------------------------------------------------------------
\* types.String: a value that is unknown, null or a known string.

StringUnknown == [state |-> "unknown", value |-> ""]

StringNull == [state |-> "null", value |-> ""]

StringValue(s) == [state |-> "known", value |-> s]

IsUnknown(v) == v.state = "unknown"

IsNull(v) == v.state = "null"

\* ValueString returns "" for a null or unknown value.
ValueString(v) == IF v.state = "known" THEN v.value ELSE ""

\* The zero value of MatrixProviderModel: every attribute null.
ZeroModel == [f \in Fields |-> StringNull]

----------------------------------------------------------------------------
\* The inputs: the strings a configuration or the environment may hold.

BadUrl == "://bad"

ConfigStrings(f) ==
    CASE f = "client_server_url" -> {"", "https://matrix.org", BadUrl}
      [] f = "default_access_token" -> {"", "MDAxSomeRandomString"}
      [] f = "default_user_id" -> {"", "@meow:matrix.org"}

EnvStrings(n) ==
    CASE n = "MATRIX_CLIENT_SERVER_URL" -> {"", "https://x"}
      [] n = "MATRIX_DEFAULT_ACCESS_TOKEN" -> {"", "envtoken"}
      [] n = "MATRIX_DEFAULT_USERID" -> {"", "@e:matrix.org"}

FieldValues(f) ==
    {StringUnknown, StringNull} \cup {StringValue(s) : s \in ConfigStrings(f)}

Models ==
    {m \in [Fields -> UNION {FieldValues(f) : f \in Fields}] :
        \A f \in Fields : m[f] \in FieldValues(f)}

\* A request carries the configuration: an object of the schema's type, or
\* a raw value that does not decode into MatrixProviderModel.
Requests ==
    {[Config |-> m, Malformed |-> FALSE] : m \in Models}
        \cup {[Config |-> ZeroModel, Malformed |-> TRUE]}

NoRequest == [Config |-> ZeroModel, Malformed |-> FALSE]

Environments ==
    {e \in [EnvNames -> {Unset} \cup UNION {EnvStrings(n) : n \in EnvNames}] :
        \A n \in EnvNames : e[n] \in {Unset} \cup EnvStrings(n)}

----------------------------------------------------------------------------
VARIABLES
    environ,               \* the process environment
    pc,                    \* where each cycle is in Configure
    req,                   \* req of each cycle
    config,                \* var config MatrixProviderModel
    client_server_url,     \* the locals holding the resolved values
    default_access_token,
    default_user_id,
    ctx,                   \* the logging context of each cycle
    resp,                  \* resp of each cycle
    heap,                  \* the gomatrix.Client objects allocated so far
    calls,                 \* the calls of gomatrix.NewClient made so far
    logs                   \* the log entries emitted so far

vars ==
    <<environ, pc, req, config, client_server_url, default_access_token,
      default_user_id, ctx, resp, heap, calls, logs>>

----------------------------------------------------------------------------
\* os.Getenv: the value of the variable, "" when it is not set.
Getenv(n) == IF environ[n] = Unset THEN "" ELSE environ[n]

----------------------------------------------------------------------------
\* Diagnostics.

ErrorDiag(path, summary, detail) ==
    [severity |-> "error", path |-> path, summary |-> summary,
     detail |-> detail]

\* Diagnostics.HasError
HasError(diags) == \E i \in 1..Len(diags) : diags[i].severity = "error"

\* The error req.Config.Get reports for a value that does not decode.
DecodeDiag ==
    ErrorDiag(Nil, "Value Conversion Error",
              "An unexpected error was encountered trying to build a value.")

\* req.Config.Get(ctx, &config): the decoded model and the diagnostics.
ConfigGet(r) ==
    IF r.Malformed
    THEN [config |-> ZeroModel, diags |-> <<DecodeDiag>>]
    ELSE [config |-> r.Config, diags |-> << >>]

UnknownSummary(f) ==
    CASE f = "client_server_url" -> "Unknown Matrix Server URL"
      [] f = "default_access_token" -> "Unknown Default Access Token"
      [] f = "default_user_id" -> "Unknown Default User ID"

UnknownDetail(f) ==
    CASE f = "client_server_url" ->
           "The provider cannot create the Matrix API client as there is an unknown configuration value for the Matrix API host. "
           \o "Either target apply the source of the value first, set the value statically in the configuration, or use the MATRIX_CLIENT_SERVER_URL environment variable."
      [] f = "default_access_token" ->
           "The provider cannot create the Matrix API client as there is an unknown configuration value for the default AccessToken. "
           \o "Either target apply the source of the value first, set the value statically in the configuration, or use the MATRIX_DEFAULT_ACCESS_TOKEN environment variable."
      [] f = "default_user_id" ->
           "The provider cannot create the Matrix API client as there is an unknown configuration value for the default UserID. "
           \o "Either target apply the source of the value first, set the value statically in the configuration, or use the MATRIX_DEFAULT_USERID environment variable."

UnknownDiag(f) == ErrorDiag(f, UnknownSummary(f), UnknownDetail(f))

MissingSummary(f) ==
    CASE f = "client_server_url" -> "Missing Matrix Server URL"
      [] f = "default_access_token" -> "Missing Default Access Token"
      [] f = "default_user_id" -> "Missing Default UserID"

MissingDetail(f) ==
    CASE f = "client_server_url" ->
           "The provider cannot create the Matrix API client as there is a missing or empty value for the Matrix API host. "
           \o "Set the client_server_url value in the configuration or use the MATRIX_CLIENT_SERVER_URL environment variable. "
           \o "If either is already set, ensure the value is not empty."
      [] f = "default_access_token" ->
           "The provider cannot create the Matrix API client as there is a missing or empty value for the default AccessToken. "
           \o "Set the default_access_token value in the configuration or use the MATRIX_DEFAULT_ACCESS_TOKEN environment variable. "
           \o "If either is already set, ensure the value is not empty."
      [] f = "default_user_id" ->
           "The provider cannot create the Matrix API client as there is a missing or empty value for the default UserID. "
           \o "Set the default_user_id value in the configuration or use the MATRIX_DEFAULT_USERID environment variable. "
           \o "If either is already set, ensure the value is not empty."

MissingDiag(f) == ErrorDiag(f, MissingSummary(f), MissingDetail(f))

----------------------------------------------------------------------------
\* UnknownPass stopping at the first unknown attribute it finds.
UnknownPassFailFast(cfg, diags) ==
    IF IsUnknown(cfg["client_server_url"])
    THEN Append(diags, UnknownDiag("client_server_url"))
    ELSE IF IsUnknown(cfg["default_access_token"])
    THEN Append(diags, UnknownDiag("default_access_token"))
    ELSE IF IsUnknown(cfg["default_user_id"])
    THEN Append(diags, UnknownDiag("default_user_id"))
    ELSE diags

\* The unknown-value pass: one check per attribute, each appending to the
\* diagnostics the earlier checks left.
UnknownPass(cfg, diags) ==
    LET d1 == IF IsUnknown(cfg["client_server_url"])
              THEN Append(diags, UnknownDiag("client_server_url"))
              ELSE diags
        d2 == IF IsUnknown(cfg["default_access_token"])
              THEN Append(d1, UnknownDiag("default_access_token"))
              ELSE d1
        d3 == IF IsUnknown(cfg["default_user_id"])
              THEN Append(d2, UnknownDiag("default_user_id"))
              ELSE d2
    IN  d3

\* Resolve with the environment variable taking precedence when it is set.
ResolveEnvFirst(v, envValue) ==
    IF envValue # "" THEN envValue ELSE ValueString(v)

\* Resolve without the environment fallback.
ResolveConfigOnly(v, envValue) == ValueString(v)

\* Resolve falling back to the environment for an empty configured value.
ResolveEmptyFallsBack(v, envValue) ==
    IF ValueString(v) # "" THEN ValueString(v) ELSE envValue

\* The resolved value of one attribute: the environment variable's value,
\* overridden by the configuration value when that is not null.
Resolve(v, envValue) == IF ~IsNull(v) THEN ValueString(v) ELSE envValue

\* EmptyPass stopping at the first empty value it finds.
EmptyPassFailFast(url, token, userId, diags) ==
    IF url = ""
    THEN Append(diags, MissingDiag("client_server_url"))
    ELSE IF token = ""
    THEN Append(diags, MissingDiag("default_access_token"))
    ELSE IF userId = ""
    THEN Append(diags, MissingDiag("default_user_id"))
    ELSE diags

\* The emptiness pass over the three resolved values.
EmptyPass(url, token, userId, diags) ==
    LET d1 == IF url = ""
              THEN Append(diags, MissingDiag("client_server_url"))
              ELSE diags
        d2 == IF token = ""
              THEN Append(d1, MissingDiag("default_access_token"))
              ELSE d1
        d3 == IF userId = ""
              THEN Append(d2, MissingDiag("default_user_id"))
              ELSE d2
    IN  d3

----------------------------------------------------------------------------
\* The logging context: the fields attached to it and the keys whose
\* values are masked in every entry emitted on it.

Masked == "***"

EmptyContext == [fields |-> << >>, masked |-> {}]

\* tflog.SetField
SetField(c, key, value) == [c EXCEPT !.fields = (key :> value) @@ c.fields]

\* tflog.MaskFieldValuesWithFieldKeys
MaskFieldValuesWithFieldKeys(c, key) == [c EXCEPT !.masked = @ \cup {key}]

\* The entry a tflog call emits on context c: the context's fields and the
\* call's additional fields, the masked keys' values replaced.
Emit(c, level, msg, additional) ==
    LET all == additional @@ c.fields
    IN  [level |-> level, msg |-> msg,
         fields |-> [k \in DOMAIN all |->
                        IF k \in c.masked THEN Masked ELSE all[k]]]

\* tflog.Debug / tflog.Info
Debug(c, msg, additional) == Emit(c, "debug", msg, additional)

Info(c, msg, additional) == Emit(c, "info", msg, additional)

\* RedactionContext with the entry logged before the token is masked.
RedactionContextLogFirst(c0, url, token, userId) ==
    LET c1 == SetField(c0, "client_server_url", url)
        c2 == SetField(c1, "default_access_token", token)
        c3 == SetField(c2, "default_user_id", userId)
        c4 == MaskFieldValuesWithFieldKeys(c3, "default_access_token")
    IN  [ctx |-> c4,
         entries |-> <<Debug(c3, "Creating Matrix client", << >>)>>]

\* The context built from the three resolved values, and the entry logged
\* on it before the client is constructed.
RedactionContext(c0, url, token, userId) ==
    LET c1 == SetField(c0, "client_server_url", url)
        c2 == SetField(c1, "default_access_token", token)
        c3 == SetField(c2, "default_user_id", userId)
        c4 == MaskFieldValuesWithFieldKeys(c3, "default_access_token")
    IN  [ctx |-> c4,
         entries |-> <<Debug(c4, "Creating Matrix client", << >>)>>]

----------------------------------------------------------------------------
\* gomatrix.NewClient: the homeserver URL is parsed; a URL that does not
\* parse is the only failure, and a new Client is allocated otherwise.

UrlParseError(u) ==
    IF u = BadUrl THEN "parse \"://bad\": missing protocol scheme" ELSE Nil

NewClient(homeserverURL, userID, accessToken) ==
    IF UrlParseError(homeserverURL) # Nil
    THEN [client |-> Nil, err |-> UrlParseError(homeserverURL)]
    ELSE [client |-> [HomeserverURL |-> homeserverURL, UserID |-> userID,
                      AccessToken |-> accessToken],
          err |-> Nil]

\* Allocate handing out one shared object instead of a new one.
AllocateShared(h) == IF h = << >> THEN Len(h) + 1 ELSE Len(h)

\* A pointer to a newly allocated object of heap h.
Allocate(h) == Len(h) + 1

\* NewClientArgs with the user id and the access token exchanged.
NewClientArgsSwapped(url, token, userId) ==
    [homeserverURL |-> url, userID |-> token, accessToken |-> userId]

\* The arguments Configure passes to gomatrix.NewClient.
NewClientArgs(url, token, userId) ==
    [homeserverURL |-> url, userID |-> userId, accessToken |-> token]

\* ClientErrorDiag reported as a warning.
ClientWarningDiag(err) ==
    [severity |-> "warning", path |-> Nil,
     summary |-> "Unable to Create Matrix API Client",
     detail |-> "An unexpected error occurred when creating the Matrix API client. "
                \o "If the error is not clear, please contact the provider developers.\n\n"
                \o "Matrix Client Error: " \o err]

\* ClientErrorDiag without the cause's message.
ClientErrorDiagNoCause(err) ==
    ErrorDiag(Nil, "Unable to Create Matrix API Client",
              "An unexpected error occurred when creating the Matrix API client. "
              \o "If the error is not clear, please contact the provider developers.")

ClientErrorDiag(err) ==
    ErrorDiag(Nil, "Unable to Create Matrix API Client",
              "An unexpected error occurred when creating the Matrix API client. "
              \o "If the error is not clear, please contact the provider developers.\n\n"
              \o "Matrix Client Error: " \o err)

\* resp after the client was stored for data sources and resources.
StoreClient(r, client) ==
    [r EXCEPT !.DataSourceData = client, !.ResourceData = client]

----------------------------------------------------------------------------
EmptyResponse ==
    [Diagnostics |-> << >>, DataSourceData |-> Nil, ResourceData |-> Nil]

Init ==
    /\ environ \in Environments
    /\ pc = [c \in Cycles |-> "Idle"]
    /\ req = [c \in Cycles |-> NoRequest]
    /\ config = [c \in Cycles |-> ZeroModel]
    /\ client_server_url = [c \in Cycles |-> ""]
    /\ default_access_token = [c \in Cycles |-> ""]
    /\ default_user_id = [c \in Cycles |-> ""]
    /\ ctx = [c \in Cycles |-> EmptyContext]
    /\ resp = [c \in Cycles |-> EmptyResponse]
    /\ heap = << >>
    /\ calls = << >>
    /\ logs = [c \in Cycles |-> << >>]

Terminal == {"Fail", "Ready"}

\* The framework calls Configure with a request and an empty response; a
\* cycle runs to completion before the next one is started.
Configure(c) ==
    /\ pc[c] = "Idle"
    /\ \A d \in Cycles : d < c => pc[d] \in Terminal
    /\ \E r \in Requests : req' = [req EXCEPT ![c] = r]
    /\ pc' = [pc EXCEPT ![c] = "Start"]
    /\ UNCHANGED <<environ, config, client_server_url, default_access_token,
                   default_user_id, ctx, resp, heap, calls, logs>>

\* var config MatrixProviderModel
Start(c) ==
    /\ pc[c] = "Start"
    /\ config' = [config EXCEPT ![c] = ZeroModel]
    /\ pc' = [pc EXCEPT ![c] = "ReadInput"]
    /\ UNCHANGED <<environ, req, client_server_url, default_access_token,
                   default_user_id, ctx, resp, heap, calls, logs>>

\* ReadInput without the checkpoint after the decoding.
ReadInputNoCheckpoint(c) ==
    /\ pc[c] = "ReadInput"
    /\ LET got == ConfigGet(req[c])
       IN  /\ config' = [config EXCEPT ![c] = got.config]
           /\ resp' = [resp EXCEPT ![c].Diagnostics = @ \o got.diags]
    /\ pc' = [pc EXCEPT ![c] = "ValidateUnknown"]
    /\ UNCHANGED <<environ, req, client_server_url, default_access_token,
                   default_user_id, ctx, heap, calls, logs>>

\* The configuration is decoded into config; a decode error ends the cycle.
ReadInput(c) ==
    /\ pc[c] = "ReadInput"
    /\ LET got == ConfigGet(req[c])
           diags == resp[c].Diagnostics \o got.diags
       IN  /\ config' = [config EXCEPT ![c] = got.config]
           /\ resp' = [resp EXCEPT ![c].Diagnostics = diags]
           /\ pc' = [pc EXCEPT ![c] =
                        IF HasError(diags) THEN "Fail" ELSE "ValidateUnknown"]
    /\ UNCHANGED <<environ, req, client_server_url, default_access_token,
                   default_user_id, ctx, heap, calls, logs>>

\* ValidateUnknown without the checkpoint after the pass.
ValidateUnknownNoCheckpoint(c) ==
    /\ pc[c] = "ValidateUnknown"
    /\ resp' = [resp EXCEPT ![c].Diagnostics =
                   UnknownPass(config[c], resp[c].Diagnostics)]
    /\ pc' = [pc EXCEPT ![c] = "ValidateEmpty"]
    /\ UNCHANGED <<environ, req, config, client_server_url,
                   default_access_token, default_user_id, ctx, heap, calls,
                   logs>>

\* The unknown-value pass and the checkpoint after it.
ValidateUnknown(c) ==
    /\ pc[c] = "ValidateUnknown"
    /\ LET diags == UnknownPass(config[c], resp[c].Diagnostics)
       IN  /\ resp' = [resp EXCEPT ![c].Diagnostics = diags]
           /\ pc' = [pc EXCEPT ![c] =
                        IF HasError(diags) THEN "Fail" ELSE "ValidateEmpty"]
    /\ UNCHANGED <<environ, req, config, client_server_url,
                   default_access_token, default_user_id, ctx, heap, calls,
                   logs>>

\* The environment is read, the three values are resolved, and the
\* emptiness pass and its checkpoint follow.
ValidateEmpty(c) ==
    /\ pc[c] = "ValidateEmpty"
    /\ LET url == Resolve(config[c]["client_server_url"],
                          Getenv("MATRIX_CLIENT_SERVER_URL"))
           token == Resolve(config[c]["default_access_token"],
                            Getenv("MATRIX_DEFAULT_ACCESS_TOKEN"))
           userId == Resolve(config[c]["default_user_id"],
                             Getenv("MATRIX_DEFAULT_USERID"))
           diags == EmptyPass(url, token, userId, resp[c].Diagnostics)
       IN  /\ client_server_url' = [client_server_url EXCEPT ![c] = url]
           /\ default_access_token' =
                  [default_access_token EXCEPT ![c] = token]
           /\ default_user_id' = [default_user_id EXCEPT ![c] = userId]
           /\ resp' = [resp EXCEPT ![c].Diagnostics = diags]
           /\ pc' = [pc EXCEPT ![c] =
                        IF HasError(diags) THEN "Fail"
                        ELSE "BuildRedactionContext"]
    /\ UNCHANGED <<environ, req, config, ctx, heap, calls, logs>>

\* The resolved values are attached to the logging context, the access
\* token is masked, and the first entry is logged.
BuildRedactionContext(c) ==
    /\ pc[c] = "BuildRedactionContext"
    /\ LET built == RedactionContext(ctx[c], client_server_url[c],
                                     default_access_token[c],
                                     default_user_id[c])
       IN  /\ ctx' = [ctx EXCEPT ![c] = built.ctx]
           /\ logs' = [logs EXCEPT ![c] = @ \o built.entries]
    /\ pc' = [pc EXCEPT ![c] = "ConstructClient"]
    /\ UNCHANGED <<environ, req, config, client_server_url,
                   default_access_token, default_user_id, resp, heap, calls>>

\* ConstructClient trying the construction again after an error.
ConstructClientRetry(c) ==
    /\ pc[c] = "ConstructClient"
    /\ LET args == NewClientArgs(client_server_url[c],
                                 default_access_token[c], default_user_id[c])
           made == NewClient(args.homeserverURL, args.userID,
                             args.accessToken)
           client == Allocate(heap)
       IN  /\ calls' = Append(calls, [cycle |-> c, args |-> args])
           /\ IF made.err # Nil
              THEN /\ resp' = [resp EXCEPT ![c].Diagnostics =
                                  Append(@, ClientErrorDiag(made.err))]
                   /\ pc' = [pc EXCEPT ![c] =
                                IF Len(resp[c].Diagnostics) = 0
                                THEN "ConstructClient" ELSE "Fail"]
                   /\ UNCHANGED <<heap, logs>>
              ELSE /\ heap' = Append(heap, made.client)
                   /\ resp' = [resp EXCEPT ![c] = StoreClient(@, client)]
                   /\ logs' = [logs EXCEPT ![c] =
                                  Append(@, Info(ctx[c],
                                                 "Configured Matrix client",
                                                 "success" :> TRUE))]
                   /\ pc' = [pc EXCEPT ![c] = "Ready"]
    /\ UNCHANGED <<environ, req, config, client_server_url,
                   default_access_token, default_user_id, ctx>>

\* The one call of gomatrix.NewClient: an error becomes a diagnostic and
\* ends the cycle; a client is stored in both slots and logged.
ConstructClient(c) ==
    /\ pc[c] = "ConstructClient"
    /\ LET args == NewClientArgs(client_server_url[c],
                                 default_access_token[c], default_user_id[c])
           made == NewClient(args.homeserverURL, args.userID,
                             args.accessToken)
           client == Allocate(heap)
       IN  /\ calls' = Append(calls, [cycle |-> c, args |-> args])
           /\ IF made.err # Nil
              THEN /\ resp' = [resp EXCEPT ![c].Diagnostics =
                                  Append(@, ClientErrorDiag(made.err))]
                   /\ pc' = [pc EXCEPT ![c] = "Fail"]
                   /\ UNCHANGED <<heap, logs>>
              ELSE /\ heap' = Append(heap, made.client)
                   /\ resp' = [resp EXCEPT ![c] = StoreClient(@, client)]
                   /\ logs' = [logs EXCEPT ![c] =
                                  Append(@, Info(ctx[c],
                                                 "Configured Matrix client",
                                                 "success" :> TRUE))]
                   /\ pc' = [pc EXCEPT ![c] = "Ready"]
    /\ UNCHANGED <<environ, req, config, client_server_url,
                   default_access_token, default_user_id, ctx>>

Next ==
    \E c \in Cycles :
        \/ Configure(c)
        \/ Start(c)
        \/ ReadInput(c)
        \/ ValidateUnknown(c)
        \/ ValidateEmpty(c)
        \/ BuildRedactionContext(c)
        \/ ConstructClient(c)

Spec == Init /\ [][Next]_vars

\* The steps of a cycle that Configure takes by itself once it was called.
Run(c) ==
    \/ Start(c)
    \/ ReadInput(c)
    \/ ValidateUnknown(c)
    \/ ValidateEmpty(c)
    \/ BuildRedactionContext(c)
    \/ ConstructClient(c)

\* Configure is straight-line code: a cycle that was started keeps running
\* until it returns, the call of gomatrix.NewClient included.
FairSpec == Spec /\ \A c \in Cycles : WF_vars(Run(c))

----------------------------------------------------------------------------
\* The same cycle statement by statement: the two validation passes taken
\* one check at a time, and the cycles of concurrent Configure calls
\* interleaved.

\* The position before the i-th check of the unknown-value pass / before
\* the i-th override / before the i-th check of the emptiness pass.
UnknownAt(i) ==
    IF i = 1 THEN "ValidateUnknown"
    ELSE IF i <= Len(FieldNames) THEN "ValidateUnknown:" \o FieldNames[i]
    ELSE "ValidateUnknown:checkpoint"

OverrideAt(i) ==
    IF i <= Len(FieldNames) THEN "ValidateEmpty:override:" \o FieldNames[i]
    ELSE "ValidateEmpty:check:" \o FieldNames[1]

EmptyAt(i) ==
    IF i <= Len(FieldNames) THEN "ValidateEmpty:check:" \o FieldNames[i]
    ELSE "ValidateEmpty:checkpoint"

\* AddAttributeError replacing the diagnostics by the new entry.
AddAttributeErrorOverwrite(diags, d) == <<d>>

\* Diagnostics.AddAttributeError
AddAttributeError(diags, d) == Append(diags, d)

\* An assignment that writes a variable shared by all cycles.
AssignShared(locals, c, value) == [d \in Cycles |-> value]

\* An assignment to a local variable of cycle c.
Assign(locals, c, value) == [locals EXCEPT ![c] = value]

\* The environments the interleaved cycles are run in: nothing set, every
\* variable set, and the URL alone set with an empty token variable.
ConcurrentEnvironments ==
    {[n \in EnvNames |-> Unset],
     [n \in EnvNames |->
         CASE n = "MATRIX_CLIENT_SERVER_URL" -> "https://x"
           [] n = "MATRIX_DEFAULT_ACCESS_TOKEN" -> "envtoken"
           [] n = "MATRIX_DEFAULT_USERID" -> "@e:matrix.org"],
     [n \in EnvNames |->
         CASE n = "MATRIX_CLIENT_SERVER_URL" -> "https://x"
           [] n = "MATRIX_DEFAULT_ACCESS_TOKEN" -> ""
           [] n = "MATRIX_DEFAULT_USERID" -> Unset]}

\* The requests of the interleaved cycles: every attribute unknown, null
\* or a non-empty string, and the request that does not decode.
ConcurrentRequests ==
    {r \in Requests : \A f \in Fields : r.Config[f] # StringValue("")}

StmtInit == Init /\ environ \in ConcurrentEnvironments

\* The framework calls Configure, possibly while another call is running.
Call(c) ==
    /\ pc[c] = "Idle"
    /\ \E r \in ConcurrentRequests : req' = [req EXCEPT ![c] = r]
    /\ pc' = [pc EXCEPT ![c] = "Start"]
    /\ UNCHANGED <<environ, config, client_server_url, default_access_token,
                   default_user_id, ctx, resp, heap, calls, logs>>

\* if config.<attribute>.IsUnknown() { resp.Diagnostics.AddAttributeError }
StmtCheckUnknown(c, i) ==
    /\ pc[c] = UnknownAt(i)
    /\ resp' = [resp EXCEPT ![c].Diagnostics =
                   IF IsUnknown(config[c][FieldNames[i]])
                   THEN AddAttributeError(@, UnknownDiag(FieldNames[i]))
                   ELSE @]
    /\ pc' = [pc EXCEPT ![c] = UnknownAt(i + 1)]
    /\ UNCHANGED <<environ, req, config, client_server_url,
                   default_access_token, default_user_id, ctx, heap, calls,
                   logs>>

\* if resp.Diagnostics.HasError() { return } after the unknown-value pass
StmtUnknownCheckpoint(c) ==
    /\ pc[c] = "ValidateUnknown:checkpoint"
    /\ pc' = [pc EXCEPT ![c] =
                 IF HasError(resp[c].Diagnostics) THEN "Fail"
                 ELSE "ValidateEmpty"]
    /\ UNCHANGED <<environ, req, config, client_server_url,
                   default_access_token, default_user_id, ctx, resp, heap,
                   calls, logs>>

\* The three locals are declared with the values of os.Getenv.
StmtGetenv(c) ==
    /\ pc[c] = "ValidateEmpty"
    /\ client_server_url' =
          Assign(client_server_url, c, Getenv("MATRIX_CLIENT_SERVER_URL"))
    /\ default_access_token' =
          Assign(default_access_token, c,
                 Getenv("MATRIX_DEFAULT_ACCESS_TOKEN"))
    /\ default_user_id' =
          Assign(default_user_id, c, Getenv("MATRIX_DEFAULT_USERID"))
    /\ pc' = [pc EXCEPT ![c] = OverrideAt(1)]
    /\ UNCHANGED <<environ, req, config, ctx, resp, heap, calls, logs>>

\* if !config.<attribute>.IsNull() { <local> = config.<attribute>.ValueString() }
StmtOverride(c, i) ==
    /\ pc[c] = OverrideAt(i)
    /\ i <= Len(FieldNames)
    /\ LET f == FieldNames[i]
           set == ~IsNull(config[c][f])
           value == ValueString(config[c][f])
       IN  /\ client_server_url' =
                  IF set /\ f = "client_server_url"
                  THEN Assign(client_server_url, c, value)
                  ELSE client_server_url
           /\ default_access_token' =
                  IF set /\ f = "default_access_token"
                  THEN Assign(default_access_token, c, value)
                  ELSE default_access_token
           /\ default_user_id' =
                  IF set /\ f = "default_user_id"
                  THEN Assign(default_user_id, c, value)
                  ELSE default_user_id
    /\ pc' = [pc EXCEPT ![c] = OverrideAt(i + 1)]
    /\ UNCHANGED <<environ, req, config, ctx, resp, heap, calls, logs>>

\* The value of the local of cycle c that belongs to the i-th attribute.
LocalAt(c, i) ==
    CASE i = 1 -> client_server_url[c]
      [] i = 2 -> default_access_token[c]
      [] i = 3 -> default_user_id[c]

\* if <local> == "" { resp.Diagnostics.AddAttributeError }
StmtCheckEmpty(c, i) ==
    /\ pc[c] = EmptyAt(i)
    /\ i <= Len(FieldNames)
    /\ resp' = [resp EXCEPT ![c].Diagnostics =
                   IF LocalAt(c, i) = ""
                   THEN AddAttributeError(@, MissingDiag(FieldNames[i]))
                   ELSE @]
    /\ pc' = [pc EXCEPT ![c] = EmptyAt(i + 1)]
    /\ UNCHANGED <<environ, req, config, client_server_url,
                   default_access_token, default_user_id, ctx, heap, calls,
                   logs>>

\* if resp.Diagnostics.HasError() { return } after the emptiness pass
StmtEmptyCheckpoint(c) ==
    /\ pc[c] = "ValidateEmpty:checkpoint"
    /\ pc' = [pc EXCEPT ![c] =
                 IF HasError(resp[c].Diagnostics) THEN "Fail"
                 ELSE "BuildRedactionContext"]
    /\ UNCHANGED <<environ, req, config, client_server_url,
                   default_access_token, default_user_id, ctx, resp, heap,
                   calls, logs>>

StmtNext ==
    \E c \in Cycles :
        \/ Call(c)
        \/ Start(c)
        \/ ReadInput(c)
        \/ \E i \in 1..Len(FieldNames) : StmtCheckUnknown(c, i)
        \/ StmtUnknownCheckpoint(c)
        \/ StmtGetenv(c)
        \/ \E i \in 1..Len(FieldNames) : StmtOverride(c, i)
        \/ \E i \in 1..Len(FieldNames) : StmtCheckEmpty(c, i)
        \/ StmtEmptyCheckpoint(c)
        \/ BuildRedactionContext(c)
        \/ ConstructClient(c)

StmtSpec == StmtInit /\ [][StmtNext]_vars

----------------------------------------------------------------------------
\* Vocabulary of the properties below.

\* The attributes the request of cycle c holds as unknown / as null.
UnknownFields(c) == {f \in Fields : req[c].Config[f].state = "unknown"}

NullFields(c) == {f \in Fields : req[c].Config[f].state = "null"}

\* The request of cycle c decoded into the provider model.
Decoded(c) == pc[c] # "Idle" /\ ~req[c].Malformed

\* The environment variable of attribute f is unset or empty.
EnvEmpty(f) == environ[EnvName(f)] \in {Unset, ""}

\* The value attribute f is expected to resolve to in cycle c.
Expected(c, f) ==
    IF req[c].Config[f].state = "known" THEN req[c].Config[f].value
    ELSE IF EnvEmpty(f) THEN "" ELSE environ[EnvName(f)]

\* The local of cycle c that holds the resolved value of attribute f.
Local(c, f) ==
    CASE f = "client_server_url" -> client_server_url[c]
      [] f = "default_access_token" -> default_access_token[c]
      [] f = "default_user_id" -> default_user_id[c]

\* The argument of a NewClient call that carries attribute f.
ArgOf(call, f) ==
    CASE f = "client_server_url" -> call.args.homeserverURL
      [] f = "default_access_token" -> call.args.accessToken
      [] f = "default_user_id" -> call.args.userID

Diags(c) == resp[c].Diagnostics

\* The positions of the diagnostics of cycle c that name attribute f.
DiagsAt(c, f) == {i \in 1..Len(Diags(c)) : Diags(c)[i].path = f}

CallsBy(c) == {i \in 1..Len(calls) : calls[i].cycle = c}

\* Cycle c is past the resolution of its three values.
Resolved(c) ==
    /\ Decoded(c)
    /\ UnknownFields(c) = {}
    /\ pc[c] \in {"BuildRedactionContext", "ConstructClient", "Ready", "Fail"}

MissingSummaries == {MissingSummary(f) : f \in Fields}

UnknownSummaries == {UnknownSummary(f) : f \in Fields}

----------------------------------------------------------------------------
\* C1: when at least one attribute of a decoded configuration is unknown,
\* the cycle ends in Fail, its diagnostics hold exactly one entry per
\* unknown attribute, the 'Unknown ...' error naming it, and no entry for
\* an attribute that is not unknown, and gomatrix.NewClient is never called.
C1_UnknownReported ==
    \A c \in Cycles :
        (Decoded(c) /\ UnknownFields(c) # {}) =>
            /\ CallsBy(c) = {}
            /\ pc[c] # "Ready"
            /\ pc[c] = "Fail" =>
                /\ Len(Diags(c)) = Cardinality(UnknownFields(c))
                /\ \A f \in Fields :
                      IF f \in UnknownFields(c)
                      THEN /\ Cardinality(DiagsAt(c, f)) = 1
                           /\ \A i \in DiagsAt(c, f) :
                                 /\ Diags(c)[i].severity = "error"
                                 /\ Diags(c)[i].summary = UnknownSummary(f)
                                 /\ Diags(c)[i].detail = UnknownDetail(f)
                      ELSE DiagsAt(c, f) = {}

\* A cycle failed with the first and the last attribute unknown and the
\* middle one known.
C1_Witness ==
    \E c \in Cycles :
        /\ pc[c] = "Fail"
        /\ Decoded(c)
        /\ UnknownFields(c) = {"client_server_url", "default_user_id"}
        /\ Len(Diags(c)) = 2

\* C2: when no attribute is unknown, a cycle in which some attribute is
\* null with its environment variable unset or empty ends in Fail with
\* exactly one 'Missing ...' error for each such attribute and no entry
\* for an attribute that resolved to a non-empty value, and
\* gomatrix.NewClient is not called.
C2_MissingReported ==
    \A c \in Cycles :
        (/\ Decoded(c)
         /\ UnknownFields(c) = {}
         /\ \E f \in NullFields(c) : EnvEmpty(f)) =>
            /\ CallsBy(c) = {}
            /\ pc[c] # "Ready"
            /\ pc[c] = "Fail" =>
                \A f \in Fields :
                    /\ (f \in NullFields(c) /\ EnvEmpty(f)) =>
                          /\ Cardinality(DiagsAt(c, f)) = 1
                          /\ \A i \in DiagsAt(c, f) :
                                /\ Diags(c)[i].severity = "error"
                                /\ Diags(c)[i].summary = MissingSummary(f)
                                /\ Diags(c)[i].detail = MissingDetail(f)
                    /\ Expected(c, f) # "" => DiagsAt(c, f) = {}

\* All three attributes null and only MATRIX_CLIENT_SERVER_URL set: the
\* cycle failed with two entries, for the token and the user id.
C2_Witness ==
    \E c \in Cycles :
        /\ pc[c] = "Fail"
        /\ Decoded(c)
        /\ NullFields(c) = Fields
        /\ environ["MATRIX_CLIENT_SERVER_URL"] = "https://x"
        /\ environ["MATRIX_DEFAULT_ACCESS_TOKEN"] = Unset
        /\ environ["MATRIX_DEFAULT_USERID"] = ""
        /\ Len(Diags(c)) = 2
        /\ DiagsAt(c, "client_server_url") = {}

\* C3: an attribute whose configuration value is a known non-empty string
\* resolves to exactly that string, whatever its environment variable
\* holds: the local holds it, the emptiness pass reports nothing for it,
\* and every gomatrix.NewClient call of the cycle receives it.
C3_ConfigPrecedence ==
    \A c \in Cycles : \A f \in Fields :
        (/\ Decoded(c)
         /\ req[c].Config[f].state = "known"
         /\ req[c].Config[f].value # "") =>
            /\ Resolved(c) =>
                  /\ Local(c, f) = req[c].Config[f].value
                  /\ DiagsAt(c, f) = {}
            /\ \A i \in CallsBy(c) :
                  ArgOf(calls[i], f) = req[c].Config[f].value

\* A cycle constructed its client from three configured values while all
\* three environment variables held other non-empty values.
C3_Witness ==
    \E c \in Cycles :
        /\ pc[c] = "Ready"
        /\ CallsBy(c) # {}
        /\ \A f \in Fields :
              /\ req[c].Config[f].state = "known"
              /\ ~EnvEmpty(f)
              /\ environ[EnvName(f)] # req[c].Config[f].value

\* C4: an attribute that is null in the configuration and whose
\* environment variable is a non-empty string resolves to the variable's
\* value, and no diagnostic names that attribute.
C4_EnvFallback ==
    \A c \in Cycles : \A f \in Fields :
        (/\ Decoded(c)
         /\ f \in NullFields(c)
         /\ ~EnvEmpty(f)) =>
            /\ DiagsAt(c, f) = {}
            /\ Resolved(c) => Local(c, f) = environ[EnvName(f)]
            /\ \A i \in CallsBy(c) : ArgOf(calls[i], f) = environ[EnvName(f)]

\* A cycle constructed its client with all three values taken from the
\* environment.
C4_Witness ==
    \E c \in Cycles :
        /\ pc[c] = "Ready"
        /\ Decoded(c)
        /\ NullFields(c) = Fields
        /\ CallsBy(c) # {}
        /\ client_server_url[c] = "https://x"

\* C5: a cycle ends in Fail, with an error diagnostic and both slots
\* empty, or in Ready, with both slots holding a client and no error
\* diagnostic; a populated slot and an error diagnostic are never present
\* together, and no cycle ends with neither.
C5_FailOrReady ==
    \A c \in Cycles :
        /\ pc[c] = "Fail" =>
              /\ HasError(Diags(c))
              /\ resp[c].DataSourceData = Nil
              /\ resp[c].ResourceData = Nil
        /\ pc[c] = "Ready" =>
              /\ ~HasError(Diags(c))
              /\ resp[c].DataSourceData \in 1..Len(heap)
              /\ resp[c].ResourceData \in 1..Len(heap)
        /\ ~(/\ HasError(Diags(c))
             /\ (resp[c].DataSourceData # Nil \/ resp[c].ResourceData # Nil))
        /\ pc[c] \notin Terminal =>
              /\ resp[c].DataSourceData = Nil
              /\ resp[c].ResourceData = Nil

\* One cycle ended in Fail on a construction error and another in Ready.
C5_Witness ==
    \E c, d \in Cycles :
        /\ pc[c] = "Fail"
        /\ CallsBy(c) # {}
        /\ pc[d] = "Ready"

\* The inputs of cycle c pass both validation passes.
PassesValidation(c) ==
    /\ Decoded(c)
    /\ UnknownFields(c) = {}
    /\ \A f \in Fields : Expected(c, f) # ""

\* C6: when both passes are clean and the construction call fails, the
\* diagnostics are exactly one error without a path whose detail ends with
\* the construction error's message, both slots stay empty, and the cycle
\* made exactly one construction call.
C6_ConstructionFailure ==
    \A c \in Cycles :
        (/\ PassesValidation(c)
         /\ Expected(c, "client_server_url") = BadUrl
         /\ pc[c] \in Terminal) =>
            /\ pc[c] = "Fail"
            /\ Len(Diags(c)) = 1
            /\ Diags(c)[1].severity = "error"
            /\ Diags(c)[1].path = Nil
            /\ Diags(c)[1].summary = "Unable to Create Matrix API Client"
            /\ Diags(c)[1].detail =
                  "An unexpected error occurred when creating the Matrix API client. "
                  \o "If the error is not clear, please contact the provider developers.\n\n"
                  \o "Matrix Client Error: "
                  \o "parse \"://bad\": missing protocol scheme"
            /\ resp[c].DataSourceData = Nil
            /\ resp[c].ResourceData = Nil
            /\ Cardinality(CallsBy(c)) = 1

\* A cycle failed in the construction call, the token and the user id
\* taken from the environment.
C6_Witness ==
    \E c \in Cycles :
        /\ pc[c] = "Fail"
        /\ PassesValidation(c)
        /\ req[c].Config["client_server_url"] = StringValue(BadUrl)
        /\ NullFields(c) = {"default_access_token", "default_user_id"}
        /\ Cardinality(CallsBy(c)) = 1

\* C7: when the three values resolve to non-empty strings and the
\* construction succeeds, the cycle ends in Ready after exactly one
\* construction call, made with the resolved endpoint as homeserver URL,
\* the resolved identity as user id and the resolved credential as access
\* token, and both slots point to the one client that call allocated.
C7_ConstructedOnceAndShared ==
    \A c \in Cycles :
        /\ (/\ PassesValidation(c)
            /\ Expected(c, "client_server_url") # BadUrl
            /\ pc[c] \in Terminal) => pc[c] = "Ready"
        /\ pc[c] = "Ready" =>
              /\ PassesValidation(c)
              /\ Cardinality(CallsBy(c)) = 1
              /\ \A i \in CallsBy(c) :
                    calls[i].args =
                        [homeserverURL |-> Expected(c, "client_server_url"),
                         userID |-> Expected(c, "default_user_id"),
                         accessToken |->
                             Expected(c, "default_access_token")]
              /\ resp[c].DataSourceData \in 1..Len(heap)
              /\ resp[c].ResourceData = resp[c].DataSourceData
              /\ heap[resp[c].DataSourceData] =
                    [HomeserverURL |-> Expected(c, "client_server_url"),
                     UserID |-> Expected(c, "default_user_id"),
                     AccessToken |-> Expected(c, "default_access_token")]

\* The example configuration with the environment unset: the cycle is
\* Ready.
C7_Witness ==
    \E c \in Cycles :
        /\ pc[c] = "Ready"
        /\ req[c].Config["client_server_url"] =
              StringValue("https://matrix.org")
        /\ req[c].Config["default_access_token"] = StringValue("MDAxSomeRandomString")
        /\ req[c].Config["default_user_id"] = StringValue("@meow:matrix.org")
        /\ \A n \in EnvNames : environ[n] = Unset

\* The request is a concrete, valid configuration: every attribute a
\* known non-empty string, the URL one that parses.
ValidRequest(r) ==
    /\ ~r.Malformed
    /\ \A f \in Fields : r.Config[f].state = "known" /\ r.Config[f].value # ""
    /\ r.Config["client_server_url"].value # BadUrl

\* C8: two completed cycles with identical requests end alike (same final
\* stage, diagnostics, resolved values, context and log entries); when the
\* request is concrete and valid both are Ready with no diagnostics, each
\* made its own construction call, and their handles are two distinct
\* clients with equal contents.
C8_Idempotent ==
    \A c, d \in Cycles :
        (/\ c # d
         /\ pc[c] \in Terminal
         /\ pc[d] \in Terminal
         /\ req[c] = req[d]) =>
            /\ pc[c] = pc[d]
            /\ Diags(c) = Diags(d)
            /\ \A f \in Fields : Local(c, f) = Local(d, f)
            /\ ctx[c] = ctx[d]
            /\ logs[c] = logs[d]
            /\ ValidRequest(req[c]) =>
                  /\ pc[c] = "Ready"
                  /\ Diags(c) = << >>
                  /\ Cardinality(CallsBy(c)) = 1
                  /\ Cardinality(CallsBy(d)) = 1
                  /\ Len(calls) = 2
                  /\ resp[c].DataSourceData # resp[d].DataSourceData
                  /\ resp[c].ResourceData # resp[d].ResourceData
                  /\ heap[resp[c].DataSourceData] =
                        heap[resp[d].DataSourceData]

\* Both cycles ran the same concrete, valid request to the end.
C8_Witness ==
    /\ \A c \in Cycles : pc[c] = "Ready" /\ ValidRequest(req[c])
    /\ req[1] = req[2]
    /\ Len(heap) = 2

\* Cycle c has reached the construction of the client.
ReachedConstruction(c) ==
    pc[c] \in {"ConstructClient", "Ready"} \/ CallsBy(c) # {}

\* C9: every entry a cycle logged carries the three attributes with the
\* access token rendered masked and the server URL and the user id
\* rendered as resolved; once the cycle has reached construction its
\* context holds the three attributes and masks the access token alone.
C9_TokenMaskedBeforeLogging ==
    \A c \in Cycles :
        /\ \A i \in 1..Len(logs[c]) :
              /\ Fields \subseteq DOMAIN logs[c][i].fields
              /\ logs[c][i].fields["default_access_token"] = Masked
              /\ logs[c][i].fields["client_server_url"] =
                    Expected(c, "client_server_url")
              /\ logs[c][i].fields["default_user_id"] =
                    Expected(c, "default_user_id")
        /\ ReachedConstruction(c) =>
              /\ Len(logs[c]) >= 1
              /\ DOMAIN ctx[c].fields = Fields
              /\ ctx[c].fields["default_access_token"] =
                    Expected(c, "default_access_token")
              /\ ctx[c].masked = {"default_access_token"}

\* A Ready cycle logged its two entries.
C9_Witness ==
    \E c \in Cycles :
        /\ pc[c] = "Ready"
        /\ Len(logs[c]) = 2
        /\ logs[c][1].level = "debug"
        /\ logs[c][2].level = "info"
        /\ logs[c][2].fields["success"] = TRUE

\* C10: a cycle with an unknown attribute never enters the emptiness pass:
\* it resolves nothing, reports no 'Missing ...' entry, builds no context,
\* logs nothing and calls no constructor; and a cycle reaches the context
\* and the construction only with diagnostics free of errors and three
\* non-empty resolved values.
C10_PassGating ==
    \A c \in Cycles :
        /\ (Decoded(c) /\ UnknownFields(c) # {}) =>
              /\ pc[c] \in {"Start", "ReadInput", "ValidateUnknown", "Fail"}
              /\ \A i \in 1..Len(Diags(c)) :
                    Diags(c)[i].summary \notin MissingSummaries
              /\ \A f \in Fields : Local(c, f) = ""
              /\ ctx[c] = EmptyContext
              /\ logs[c] = << >>
              /\ CallsBy(c) = {}
        /\ pc[c] = "ValidateEmpty" => ~HasError(Diags(c))
        /\ ReachedConstruction(c) \/ pc[c] = "BuildRedactionContext" =>
              /\ \A i \in 1..Len(Diags(c)) :
                    Diags(c)[i].summary
                        \notin MissingSummaries \cup UnknownSummaries
              /\ \A f \in Fields : Local(c, f) # ""
              /\ PassesValidation(c)

\* A cycle failed on an unknown URL while its token was null with the
\* environment variable unset: one entry, none for the token.
C10_Witness ==
    \E c \in Cycles :
        /\ pc[c] = "Fail"
        /\ UnknownFields(c) = {"client_server_url"}
        /\ "default_access_token" \in NullFields(c)
        /\ environ["MATRIX_DEFAULT_ACCESS_TOKEN"] = Unset
        /\ Len(Diags(c)) = 1

\* The transitions of the configuration cycle: the stages in order, and the
\* exits to Fail at the checkpoints.
StageEdges ==
    {<<"Idle", "Start">>,
     <<"Start", "ReadInput">>,
     <<"ReadInput", "ValidateUnknown">>,
     <<"ReadInput", "Fail">>,
     <<"ValidateUnknown", "ValidateEmpty">>,
     <<"ValidateUnknown", "Fail">>,
     <<"ValidateEmpty", "BuildRedactionContext">>,
     <<"ValidateEmpty", "Fail">>,
     <<"BuildRedactionContext", "ConstructClient">>,
     <<"ConstructClient", "Ready">>,
     <<"ConstructClient", "Fail">>}

\* C11: every step moves exactly one cycle along one transition of
\* Start -> ReadInput -> ValidateUnknown -> ValidateEmpty ->
\* BuildRedactionContext -> ConstructClient -> Ready or from a checkpoint
\* to Fail, so that no stage is re-entered and Fail and Ready are never
\* left; and every started cycle eventually reaches Fail or Ready.
C11_StateMachine ==
    /\ [][\E c \in Cycles :
             /\ <<pc[c], pc'[c]>> \in StageEdges
             /\ \A d \in Cycles \ {c} : pc'[d] = pc[d]]_vars
    /\ \A c \in Cycles : (pc[c] = "Start") ~> (pc[c] \in Terminal)

\* One cycle ran through every stage to Ready and the other left from the
\* construction call to Fail.
C11_Witness ==
    \E c, d \in Cycles :
        /\ pc[c] = "Ready"
        /\ Len(logs[c]) = 2
        /\ pc[d] = "Fail"
        /\ CallsBy(d) # {}

\* C14: an attribute configured as the empty string resolves to the empty
\* string even when its environment variable is non-empty: the cycle ends
\* in Fail with the 'Missing ...' error for that attribute and constructs
\* no client.
C14_EmptyStringNotReplaced ==
    \A c \in Cycles : \A f \in Fields :
        (/\ Decoded(c)
         /\ UnknownFields(c) = {}
         /\ req[c].Config[f] = StringValue("")) =>
            /\ pc[c] # "Ready"
            /\ CallsBy(c) = {}
            /\ Resolved(c) =>
                  /\ pc[c] = "Fail"
                  /\ Local(c, f) = ""
                  /\ Cardinality(DiagsAt(c, f)) = 1
                  /\ \A i \in DiagsAt(c, f) : Diags(c)[i] = MissingDiag(f)

\* A cycle failed on an empty configured URL while
\* MATRIX_CLIENT_SERVER_URL was set and the other values were configured.
C14_Witness ==
    \E c \in Cycles :
        /\ pc[c] = "Fail"
        /\ req[c].Config["client_server_url"] = StringValue("")
        /\ environ["MATRIX_CLIENT_SERVER_URL"] = "https://x"
        /\ req[c].Config["default_access_token"].state = "known"
        /\ req[c].Config["default_user_id"].state = "known"
        /\ Len(Diags(c)) = 1

\* C15: a cycle whose configuration does not decode returns at the first
\* checkpoint: it ends in Fail with the decode diagnostics alone, resolves
\* nothing from the environment, builds no context, logs nothing, calls no
\* constructor and leaves both slots empty.
C15_DecodeCheckpoint ==
    \A c \in Cycles :
        (pc[c] # "Idle" /\ req[c].Malformed) =>
            /\ pc[c] \in {"Start", "ReadInput", "Fail"}
            /\ pc[c] = "Fail" => Diags(c) = <<DecodeDiag>>
            /\ pc[c] # "Fail" => Diags(c) = << >>
            /\ \A f \in Fields : Local(c, f) = ""
            /\ ctx[c] = EmptyContext
            /\ logs[c] = << >>
            /\ CallsBy(c) = {}
            /\ resp[c].DataSourceData = Nil
            /\ resp[c].ResourceData = Nil

\* A cycle failed in the decoding while the three environment variables
\* were set.
C15_Witness ==
    \E c \in Cycles :
        /\ pc[c] = "Fail"
        /\ req[c].Malformed
        /\ \A f \in Fields : ~EnvEmpty(f)

\* Sequence a is a prefix of sequence b.
IsPrefix(a, b) ==
    /\ Len(a) <= Len(b)
    /\ \A i \in 1..Len(a) : a[i] = b[i]

\* The position of attribute f in the order Configure handles them.
FieldIndex(f) == CHOOSE i \in 1..Len(FieldNames) : FieldNames[i] = f

\* C12: every step leaves each cycle's diagnostics a prefix of what they
\* are after the step (nothing is removed, rewritten or reordered), and
\* the entries that name attributes stand in the order client_server_url,
\* default_access_token, default_user_id.
C12_AppendOnlyOrdered ==
    /\ [][\A c \in Cycles :
             IsPrefix(resp[c].Diagnostics, resp'[c].Diagnostics)]_vars
    /\ [](\A c \in Cycles : \A i, j \in 1..Len(Diags(c)) :
             (/\ i < j
              /\ Diags(c)[i].path \in Fields
              /\ Diags(c)[j].path \in Fields) =>
                 FieldIndex(Diags(c)[i].path) < FieldIndex(Diags(c)[j].path))

\* A cycle in the middle of the unknown-value pass holds the entries of
\* the first two attributes and is about to check the third, unknown too.
C12_Witness ==
    \E c \in Cycles :
        /\ pc[c] = "ValidateUnknown:default_user_id"
        /\ Len(Diags(c)) = 2
        /\ UnknownFields(c) = Fields

\* What Configure does with request r when it runs alone: the stage it
\* ends in, its diagnostics and the client it stores.
SoloOutcome(r) ==
    LET got == ConfigGet(r)
        d1 == UnknownPass(got.config, got.diags)
        url == Resolve(got.config["client_server_url"],
                       Getenv("MATRIX_CLIENT_SERVER_URL"))
        token == Resolve(got.config["default_access_token"],
                         Getenv("MATRIX_DEFAULT_ACCESS_TOKEN"))
        userId == Resolve(got.config["default_user_id"],
                          Getenv("MATRIX_DEFAULT_USERID"))
        d2 == EmptyPass(url, token, userId, d1)
        made == NewClient(url, userId, token)
    IN  IF HasError(got.diags)
        THEN [pc |-> "Fail", diags |-> got.diags, client |-> Nil]
        ELSE IF HasError(d1)
        THEN [pc |-> "Fail", diags |-> d1, client |-> Nil]
        ELSE IF HasError(d2)
        THEN [pc |-> "Fail", diags |-> d2, client |-> Nil]
        ELSE IF made.err # Nil
        THEN [pc |-> "Fail", diags |-> Append(d2, ClientErrorDiag(made.err)),
              client |-> Nil]
        ELSE [pc |-> "Ready", diags |-> d2, client |-> made.client]

\* The state that belongs to cycle c alone.
Own(c) ==
    <<req[c], config[c], client_server_url[c], default_access_token[c],
      default_user_id[c], ctx[c], resp[c], logs[c]>>

\* C13: with the cycles interleaved statement by statement in a fixed
\* environment, a cycle ends in the stage, with the diagnostics and with a
\* client of the contents it has when it runs alone, and a step of one
\* cycle changes nothing that belongs to another cycle.
C13_NonInterference ==
    /\ [](\A c \in Cycles :
             pc[c] \in Terminal =>
                 /\ pc[c] = SoloOutcome(req[c]).pc
                 /\ Diags(c) = SoloOutcome(req[c]).diags
                 /\ resp[c].ResourceData = resp[c].DataSourceData
                 /\ IF SoloOutcome(req[c]).pc = "Fail"
                    THEN resp[c].DataSourceData = Nil
                    ELSE /\ resp[c].DataSourceData \in 1..Len(heap)
                         /\ heap[resp[c].DataSourceData] =
                               SoloOutcome(req[c]).client)
    /\ [][\A c, d \in Cycles :
             (c # d /\ pc'[c] # pc[c]) => Own(d)' = Own(d)]_vars

\* Both cycles are in flight at once with different requests: one has
\* resolved its values from the configuration and is about to construct
\* its client, the other has just read its values from the environment.
C13_Witness ==
    \E c, d \in Cycles :
        /\ pc[c] = "ConstructClient"
        /\ pc[d] = "ValidateEmpty:override:client_server_url"
        /\ req[c] # req[d]
        /\ client_server_url[c] # client_server_url[d]
        /\ default_access_token[c] # default_access_token[d]

====
